---- MODULE Spec2Model ----
(***************************************************************************)
(* HttpServerManager (src/projects/modules/http/server/                    *)
(* http_server_manager.cpp): the address-keyed registry of HTTP / HTTPS    *)
(* servers, its certificate delegation and the multi-address batch         *)
(* creation with rollback.                                                 *)
(*                                                                         *)
(* Caller threads invoke the manager concurrently.  Every function of the  *)
(* manager is cut into steps at the points where another thread can        *)
(* observe or change shared state: taking _http_servers_mutex, the         *)
(* delegated Start under the mutex, the delegated certificate calls and    *)
(* Stop outside it.  A handle is the index of a server object in heap;     *)
(* only objects whose Start succeeded are kept, the others die with the    *)
(* call that made them.                                                    *)
(*                                                                         *)
(* The specifications share the actions: Spec (creation, reuse and         *)
(* release from an empty registry), SpecAll (every function but the HTTPS  *)
(* batch, from any filled registry), SpecBatch and SpecBatchTls (batch     *)
(* creation of HTTP and of HTTPS servers, from any filled registry),       *)
(* SpecCert (certificate management) and SpecRelease (release followed by  *)
(* further requests).                                                      *)
(***************************************************************************)
EXTENDS Integers, Sequences, FiniteSets, TLC

(***************************************************************************)
(* Bounds of the model.                                                    *)
(***************************************************************************)
NumThreads == 2
MaxCalls == 2
MaxCallsAll == 1
MaxCallsBatch == 1
MaxCallsCert == 2
MaxCallsRelease == 2

Threads == 1..NumThreads

(***************************************************************************)
(* Values.                                                                 *)
(***************************************************************************)
nullptr == 0
NoThread == 0
HTTP_SERVER_USE_DEFAULT_COUNT == -1

Addresses == {"a1", "a2"}
Certificates == {"c1", "c2"}
ExplicitWorkerCounts == {5, 9}
WorkerCounts == {HTTP_SERVER_USE_DEFAULT_COUNT} \cup ExplicitWorkerCounts

\* ov::SocketAddress::Create(server_ip, port): the addresses a bind host
\* resolves to, in resolution order (a wildcard host yields several).
ResolveTable(server_ip) ==
    CASE server_ip = "h1" -> <<"a1">>
      [] server_ip = "h2" -> <<"a2">>
      [] OTHER -> <<"a1", "a2">>

IpLists == {<<"h1", "h2">>, <<"any">>}

\* The three logtw sites of the file, and the logte sites the claims name.
W_WORKER_COUNT == "workers differ: first initialized count is used"
W_HTTP2_ON_HTTP11_ONLY == "Attempting to use HTTP/2 for ports enabled as HTTP/1.1 only"
W_HTTP11_ON_HTTP2 == "trying to use HTTP/1.1 on a port that is HTTP/2 enabled"

VARIABLES
    http2_config,         \* module_config.GetHttp2().IsEnabled()
    http_servers,         \* _http_servers : address -> handle
    http_servers_mutex,   \* _http_servers_mutex : the thread holding it
    heap,                 \* the server objects whose Start succeeded
    th,                   \* per thread: position and locals of its call
    prev,                 \* per thread: summary of its previous call
    http_server_list,     \* per thread: the caller's output vector
    budget,               \* number of manager calls the callers make
    calls,                \* number of manager calls made so far
    start_count,          \* per address: Start invocations so far
    start_on_entry        \* a Start was invoked at an address holding an entry

vars == <<http2_config, budget, http_servers, http_servers_mutex, heap, th, prev,
          http_server_list, calls, start_count, start_on_entry>>

Handles == 1..Len(heap)

IdleFrame ==
    [pc |-> "idle", op |-> "none", address |-> "none", worker_count |-> 0,
     disable_http2_force |-> FALSE, certificate |-> "none", handle |-> nullptr,
     server |-> nullptr, ok |-> FALSE, had_entry |-> FALSE, starts |-> 0,
     created |-> {}, warned |-> {}, server_ip_list |-> <<>>,
     ip_list |-> <<>>, address_list |-> <<>>, attempted |-> <<>>,
     server_list |-> <<>>, rel_list |-> <<>>, stopped |-> <<>>,
     callbacks |-> <<>>, callback |-> FALSE, fail |-> "none",
     out_before |-> <<>>, certs_before |-> {}, error |-> FALSE]

NoCall == [op |-> "none", address |-> "none", server |-> nullptr,
           had_entry |-> FALSE, ok |-> FALSE, certificate |-> "none",
           certs_before |-> {}, handle |-> nullptr]

Summary(f) == [op |-> f.op, address |-> f.address, server |-> f.server,
               had_entry |-> f.had_entry, ok |-> f.ok,
               certificate |-> f.certificate, certs_before |-> f.certs_before,
               handle |-> f.handle]

\* The state right after the manager is constructed: an empty registry.
InitWith(n) ==
    /\ http2_config \in BOOLEAN
    /\ budget = n
    /\ http_servers = [a \in Addresses |-> nullptr]
    /\ http_servers_mutex = NoThread
    /\ heap = <<>>
    /\ th = [t \in Threads |-> IdleFrame]
    /\ prev = [t \in Threads |-> NoCall]
    /\ http_server_list = [t \in Threads |-> <<>>]
    /\ calls = 0
    /\ start_count = [a \in Addresses |-> 0]
    /\ start_on_entry = FALSE

\* A registry earlier calls have filled: the first address holds no entry, a
\* running HttpServer or a running HttpsServer with one certificate, and
\* next to an HttpServer the second address may hold such an HttpsServer;
\* each was started once, with an explicit worker count.  The callers'
\* output vectors hold the server of the first address, which they obtained
\* through those calls.
InitialRegistries ==
    {<<"none", "none">>, <<"HttpServer", "none">>, <<"HttpsServer", "none">>,
     <<"HttpServer", "HttpsServer">>}

InitFrom(n, registries, certificate_sets) ==
    /\ http2_config \in BOOLEAN
    /\ budget = n
    /\ \E kinds \in registries, installed \in certificate_sets :
          LET k1 == kinds[1]
              k2 == kinds[2]
              made(k, a) ==
                  [type |-> k, address |-> a, worker_count |-> 5,
                   http2 |-> http2_config,
                   certs |-> IF k = "HttpsServer" THEN installed ELSE {},
                   running |-> TRUE]
              first == IF k1 = "none" THEN <<>> ELSE <<made(k1, "a1")>>
              second == IF k2 = "none" THEN <<>> ELSE <<made(k2, "a2")>>
          IN /\ heap = first \o second
             /\ http_servers =
                    [a \in Addresses |->
                        IF a = "a1"
                        THEN (IF k1 = "none" THEN nullptr ELSE 1)
                        ELSE (IF k2 = "none" THEN nullptr ELSE Len(first) + 1)]
             /\ start_count =
                    [a \in Addresses |->
                        IF (IF a = "a1" THEN k1 ELSE k2) = "none" THEN 0 ELSE 1]
             /\ http_server_list =
                    [t \in Threads |-> IF k1 = "none" THEN <<>> ELSE <<1>>]
    /\ http_servers_mutex = NoThread
    /\ th = [t \in Threads |-> IdleFrame]
    /\ prev = [t \in Threads |-> NoCall]
    /\ calls = 0
    /\ start_on_entry = FALSE

InitPopulated(n) == InitFrom(n, InitialRegistries, {{"c1"}})

(***************************************************************************)
(* Helpers shared by the functions of the manager.                         *)
(***************************************************************************)
\* Mutant of Find: the lookup misses the entry stored for the address.
FindNothing(address) == nullptr

\* _http_servers.find(address): the handle stored, nullptr for end().
Find(address) == http_servers[address]

\* std::dynamic_pointer_cast<HttpsServer>(http_server) != nullptr
IsHttpsServer(h) == heap[h].type = "HttpsServer"

\* Mutant of Lockable: the critical section is entered without the mutex.
LockableWithoutMutex(t) == TRUE

\* std::lock_guard(_http_servers_mutex) can be taken by thread t.
Lockable(t) == http_servers_mutex = NoThread

\* Mutant of Insert: a started server is not stored in the map.
InsertNothing(address, h) == http_servers

\* _http_servers[address] = server
Insert(address, h) == [http_servers EXCEPT ![address] = h]

\* Mutant of Registered: the server is stored whatever Start returned.
RegisteredAlways(address, h, started) == Insert(address, h)

\* The map after Start returned: the server is stored only when it started
\* (lines 65-73 and 120-128).
Registered(address, h, started) ==
    IF started THEN Insert(address, h) ELSE http_servers

\* The object a successful Start leaves behind.
NewServer(type, address, workers, http2) ==
    [type |-> type, address |-> address, worker_count |-> workers,
     http2 |-> http2, certs |-> {}, running |-> TRUE]

\* Listener.Start with the sentinel uses the collaborator's default count.
StartedWorkerCounts(worker_count) ==
    IF worker_count = HTTP_SERVER_USE_DEFAULT_COUNT
    THEN ExplicitWorkerCounts ELSE {worker_count}

\* http_server->GetPhysicalPort() != nullptr: present while the server runs,
\* either way once it was stopped.
PhysicalPortPresent(h) == IF heap[h].running THEN {TRUE} ELSE BOOLEAN

\* Mutant of HttpReuse: the entry is reused without the HttpsServer check.
HttpReuseAnyType(item, worker_count, physical_port) ==
    [server |-> item, warned |-> {}]

\* The reuse branch of CreateHttpServer: the handle returned and the
\* warnings logged for an existing entry.
HttpReuse(item, worker_count, physical_port) ==
    IF IsHttpsServer(item)
    THEN [server |-> nullptr, warned |-> {}]
    ELSE [server |-> item,
          warned |-> IF /\ worker_count # HTTP_SERVER_USE_DEFAULT_COUNT
                        /\ physical_port
                        /\ heap[item].worker_count # worker_count
                     THEN {W_WORKER_COUNT} ELSE {}]

\* http2_enabled of CreateHttpsServer: the module default, forced off by
\* disable_http2_force.
Http2Enabled(module_default, disable_http2_force) ==
    IF disable_http2_force = TRUE THEN FALSE ELSE module_default

\* Mutant of HttpsReuse: a differing HTTP/2 setting is rejected, not warned of.
HttpsReuseSameFlagOnly(item, http2_enabled) ==
    IF IsHttpsServer(item) /\ heap[item].http2 = http2_enabled
    THEN [server |-> item, warned |-> {}]
    ELSE [server |-> nullptr, warned |-> {}]

\* The reuse branch of CreateHttpsServer.
HttpsReuse(item, http2_enabled) ==
    IF ~IsHttpsServer(item)
    THEN [server |-> nullptr, warned |-> {}]
    ELSE [server |-> item,
          warned |-> IF heap[item].http2 /\ (http2_enabled = FALSE)
                     THEN {W_HTTP2_ON_HTTP11_ONLY}
                     ELSE IF (heap[item].http2 = FALSE) /\ http2_enabled
                          THEN {W_HTTP11_ON_HTTP2}
                          ELSE {}]

\* Where a thread continues when the lock-protected creation returns: into
\* the certificate overload, into the batch loop, or back to its caller.
AfterCreate(f) ==
    IF f.op \in {"CreateHttpsServerCert", "CreateHttpsServers"} THEN "cert_attach"
    ELSE IF f.op = "CreateHttpServers" THEN "cs_check"
    ELSE "idle"

\* Where a thread continues when the certificate overload returns.
AfterCertCreate(f) ==
    IF f.op = "CreateHttpsServers" THEN "cs_check" ELSE "idle"

(***************************************************************************)
(* A caller thread invokes one function of the manager.  The call starts   *)
(* from a fresh frame that holds its arguments.  Caller threads are        *)
(* interchangeable, so thread t makes its first call only after the        *)
(* threads below it have made theirs.                                      *)
(***************************************************************************)
Begin(t, frame) ==
    /\ th[t].pc = "idle"
    /\ calls < budget
    /\ \A u \in Threads : u < t => th[u].op # "none"
    /\ calls' = calls + 1
    /\ prev' = [prev EXCEPT ![t] = Summary(th[t])]
    /\ th' = [th EXCEPT ![t] = [frame EXCEPT
                 !.out_before = http_server_list[t]]]
    /\ UNCHANGED <<http2_config, budget, http_servers, http_servers_mutex, heap,
                   http_server_list, start_count, start_on_entry>>

InvokeCreateHttpServer(t) ==
    \E a \in Addresses, wc \in WorkerCounts :
        Begin(t, [IdleFrame EXCEPT
                     !.pc = "CreateHttpServer", !.op = "CreateHttpServer",
                     !.address = a, !.worker_count = wc])

InvokeCreateHttpsServer(t) ==
    \E a \in Addresses, wc \in WorkerCounts, d \in BOOLEAN :
        Begin(t, [IdleFrame EXCEPT
                     !.pc = "CreateHttpsServer", !.op = "CreateHttpsServer",
                     !.address = a, !.worker_count = wc,
                     !.disable_http2_force = d])

InvokeCreateHttpsServerCert(t) ==
    \E a \in Addresses, wc \in WorkerCounts, d \in BOOLEAN, c \in Certificates :
        Begin(t, [IdleFrame EXCEPT
                     !.pc = "CreateHttpsServer", !.op = "CreateHttpsServerCert",
                     !.address = a, !.worker_count = wc,
                     !.disable_http2_force = d, !.certificate = c])

InvokeCertificate(t) ==
    \E a \in Addresses, c \in Certificates,
       o \in {"AppendCertificate", "RemoveCertificate"} :
        Begin(t, [IdleFrame EXCEPT
                     !.pc = "GetHttpsServer", !.op = o,
                     !.address = a, !.certificate = c])

InvokeGetHttpsServer(t) ==
    \E a \in Addresses :
        Begin(t, [IdleFrame EXCEPT
                     !.pc = "GetHttpsServer", !.op = "GetHttpsServer",
                     !.address = a])

InvokeReleaseServer(t) ==
    \E h \in Handles \cup {nullptr} :
        Begin(t, [IdleFrame EXCEPT
                     !.pc = "ReleaseServer", !.op = "ReleaseServer",
                     !.handle = h])

\* CreateHttpServers called with a function that is null or not, as the set
\* given allows.
BeginCreateHttpServers(t, functions) ==
    \E ips \in IpLists, wc \in WorkerCounts, cb \in functions :
        Begin(t, [IdleFrame EXCEPT
                     !.pc = "cs_host", !.op = "CreateHttpServers",
                     !.server_ip_list = ips, !.ip_list = ips,
                     !.worker_count = wc, !.callback = cb])

InvokeCreateHttpServers(t) == BeginCreateHttpServers(t, BOOLEAN)

\* The callers that pass a function.
InvokeCreateHttpServersWithFunction(t) == BeginCreateHttpServers(t, {TRUE})

\* CreateHttpsServers called by the callers that pass a function and an
\* explicit worker count (CreateHttpsServer hands worker_count to Start and
\* reads it nowhere else).
InvokeCreateHttpsServers(t) ==
    \E ips \in IpLists, wc \in ExplicitWorkerCounts, d \in BOOLEAN,
       c \in Certificates, cb \in {TRUE} :
        Begin(t, [IdleFrame EXCEPT
                     !.pc = "cs_host", !.op = "CreateHttpsServers",
                     !.server_ip_list = ips, !.ip_list = ips,
                     !.worker_count = wc,
                     !.disable_http2_force = d, !.certificate = c,
                     !.callback = cb])

(***************************************************************************)
(* CreateHttpServer(instance_name, address, worker_count)                  *)
(***************************************************************************)
\* Takes the mutex and looks the address up; an existing entry is validated
\* and returned within the same critical section, a missing one leaves the
\* thread inside the critical section, about to Start.
CreateHttpServer(t) ==
    /\ th[t].pc = "CreateHttpServer"
    /\ Lockable(t)
    /\ LET f == th[t]
           item == Find(f.address)
       IN IF item # nullptr
          THEN /\ \E physical_port \in PhysicalPortPresent(item) :
                    LET r == HttpReuse(item, f.worker_count, physical_port)
                    IN th' = [th EXCEPT ![t] = [f EXCEPT
                                 !.pc = AfterCreate(f), !.server = r.server,
                                 !.had_entry = TRUE,
                                 !.warned = f.warned \cup r.warned]]
               /\ UNCHANGED http_servers_mutex
          ELSE /\ th' = [th EXCEPT ![t] = [f EXCEPT
                            !.pc = "http_start", !.had_entry = FALSE]]
               /\ http_servers_mutex' = t
    /\ UNCHANGED <<http2_config, budget, http_servers, heap, prev, http_server_list,
                   calls, start_count, start_on_entry>>

\* make_shared<HttpServer>, Start, and on success the insertion; the mutex
\* is released on return.
HttpServerStart(t) ==
    /\ th[t].pc = "http_start"
    /\ LET f == th[t]
           a == f.address
       IN /\ start_count' = [start_count EXCEPT ![a] = @ + 1]
          /\ start_on_entry' = (start_on_entry \/ http_servers[a] # nullptr)
          /\ \/ \E w \in StartedWorkerCounts(f.worker_count) :
                   LET h == Len(heap) + 1
                   IN /\ heap' = Append(heap, NewServer("HttpServer", a, w, http2_config))
                      /\ http_servers' = Registered(a, h, TRUE)
                      /\ th' = [th EXCEPT ![t] = [f EXCEPT
                                   !.pc = AfterCreate(f), !.server = h,
                                   !.starts = f.starts + 1,
                                   !.created = f.created \cup {h}]]
             \/ /\ th' = [th EXCEPT ![t] = [f EXCEPT
                             !.pc = AfterCreate(f), !.server = nullptr,
                             !.starts = f.starts + 1]]
                /\ http_servers' = Registered(a, Len(heap) + 1, FALSE)
                /\ UNCHANGED heap
    /\ http_servers_mutex' = NoThread
    /\ UNCHANGED <<http2_config, budget, prev, http_server_list, calls>>

(***************************************************************************)
(* CreateHttpsServer(instance_name, address, disable_http2_force,          *)
(*                   worker_count)                                         *)
(***************************************************************************)
CreateHttpsServer(t) ==
    /\ th[t].pc = "CreateHttpsServer"
    /\ Lockable(t)
    /\ LET f == th[t]
           item == Find(f.address)
           http2_enabled == Http2Enabled(http2_config, f.disable_http2_force)
       IN IF item # nullptr
          THEN /\ LET r == HttpsReuse(item, http2_enabled)
                  IN th' = [th EXCEPT ![t] = [f EXCEPT
                               !.pc = AfterCreate(f), !.server = r.server,
                               !.had_entry = TRUE,
                               !.warned = f.warned \cup r.warned]]
               /\ UNCHANGED http_servers_mutex
          ELSE /\ th' = [th EXCEPT ![t] = [f EXCEPT
                            !.pc = "https_start", !.had_entry = FALSE]]
               /\ http_servers_mutex' = t
    /\ UNCHANGED <<http2_config, budget, http_servers, heap, prev, http_server_list,
                   calls, start_count, start_on_entry>>

HttpsServerStart(t) ==
    /\ th[t].pc = "https_start"
    /\ LET f == th[t]
           a == f.address
           http2_enabled == Http2Enabled(http2_config, f.disable_http2_force)
       IN /\ start_count' = [start_count EXCEPT ![a] = @ + 1]
          /\ start_on_entry' = (start_on_entry \/ http_servers[a] # nullptr)
          /\ \/ \E w \in StartedWorkerCounts(f.worker_count) :
                   LET h == Len(heap) + 1
                   IN /\ heap' = Append(heap, NewServer("HttpsServer", a, w, http2_enabled))
                      /\ http_servers' = Registered(a, h, TRUE)
                      /\ th' = [th EXCEPT ![t] = [f EXCEPT
                                   !.pc = AfterCreate(f), !.server = h,
                                   !.starts = f.starts + 1,
                                   !.created = f.created \cup {h}]]
             \/ /\ th' = [th EXCEPT ![t] = [f EXCEPT
                             !.pc = AfterCreate(f), !.server = nullptr,
                             !.starts = f.starts + 1]]
                /\ http_servers' = Registered(a, Len(heap) + 1, FALSE)
                /\ UNCHANGED heap
    /\ http_servers_mutex' = NoThread
    /\ UNCHANGED <<http2_config, budget, prev, http_server_list, calls>>

(***************************************************************************)
(* CreateHttpsServer(instance_name, address, certificate,                  *)
(*                   disable_http2_force, worker_count)                    *)
(***************************************************************************)
\* HttpsServer::AppendCertificate / RemoveCertificate on a live object: the
\* certificate set after a call that reported no error.
CertsAfter(kind, certs, certificate) ==
    IF kind = "RemoveCertificate" THEN certs \ {certificate}
    ELSE certs \cup {certificate}

\* Mutant of AfterAttach: the error of the attachment is ignored.
AfterAttachIgnoringError(https_server, error) == https_server

\* What the certificate overload returns once AppendCertificate has
\* answered (lines 178-189).
AfterAttach(https_server, error) ==
    IF error THEN nullptr ELSE https_server

\* After the lock-protected creation returned, outside the mutex: attach the
\* certificate to the server obtained; an error turns the result into nullptr.
CertAttach(t) ==
    /\ th[t].pc = "cert_attach"
    /\ LET f == th[t]
           h == f.server
       IN IF h = nullptr
          THEN /\ th' = [th EXCEPT ![t] = [f EXCEPT !.pc = AfterCertCreate(f)]]
               /\ UNCHANGED heap
          ELSE \/ /\ heap' = [heap EXCEPT ![h].certs =
                               CertsAfter("AppendCertificate", @, f.certificate)]
                  /\ th' = [th EXCEPT ![t] = [f EXCEPT
                               !.pc = AfterCertCreate(f),
                               !.server = AfterAttach(h, FALSE)]]
               \/ /\ th' = [th EXCEPT ![t] = [f EXCEPT
                               !.pc = AfterCertCreate(f), !.error = TRUE,
                               !.server = AfterAttach(h, TRUE)]]
                  /\ UNCHANGED heap
    /\ UNCHANGED <<http2_config, budget, http_servers, http_servers_mutex, prev,
                   http_server_list, calls, start_count, start_on_entry>>

(***************************************************************************)
(* GetHttpsServer(address), and the head of AppendCertificate /            *)
(* RemoveCertificate that calls it.                                        *)
(***************************************************************************)
\* Mutant of HttpsLookup: the entry is returned without the HttpsServer cast.
HttpsLookupAnyType(item) == item

\* The handle GetHttpsServer returns for what find() produced.
HttpsLookup(item) ==
    IF item # nullptr /\ IsHttpsServer(item) THEN item ELSE nullptr

GetHttpsServer(t) ==
    /\ th[t].pc = "GetHttpsServer"
    /\ Lockable(t)
    /\ LET f == th[t]
           https_server == HttpsLookup(Find(f.address))
       IN th' = [th EXCEPT ![t] = [f EXCEPT
                    !.server = https_server,
                    !.had_entry = (Find(f.address) # nullptr),
                    !.ok = FALSE,
                    !.pc = IF f.op = "GetHttpsServer" \/ https_server = nullptr
                           THEN "idle" ELSE "cert_op"]]
    /\ UNCHANGED <<http2_config, budget, http_servers, http_servers_mutex, heap, prev,
                   http_server_list, calls, start_count, start_on_entry>>

\* Mutant of DelegatedCall: RemoveCertificate delegates to the append call.
DelegatedCallAlwaysAppend(op) == "AppendCertificate"

\* The call of the HttpsServer that AppendCertificate (line 143) and
\* RemoveCertificate (line 162) of the manager delegate to.
DelegatedCall(op) ==
    IF op = "RemoveCertificate" THEN "RemoveCertificate" ELSE "AppendCertificate"

\* https_server->AppendCertificate(certificate) or ->RemoveCertificate(...),
\* outside the mutex; its error becomes the false result.
CertificateOp(t) ==
    /\ th[t].pc = "cert_op"
    /\ LET f == th[t]
           h == f.server
       IN \/ /\ heap' = [heap EXCEPT ![h].certs =
                            CertsAfter(DelegatedCall(f.op), @, f.certificate)]
             /\ th' = [th EXCEPT ![t] = [f EXCEPT
                          !.pc = "idle", !.ok = TRUE,
                          !.certs_before = heap[h].certs]]
          \/ /\ th' = [th EXCEPT ![t] = [f EXCEPT
                          !.pc = "idle", !.ok = FALSE,
                          !.certs_before = heap[h].certs]]
             /\ UNCHANGED heap
    /\ UNCHANGED <<http2_config, budget, http_servers, http_servers_mutex, prev,
                   http_server_list, calls, start_count, start_on_entry>>

(***************************************************************************)
(* ReleaseServer(http_server)                                              *)
(***************************************************************************)
\* HttpServer::Stop(): a stop that reports success leaves the server stopped.
Stopped(h, result) ==
    IF result THEN [heap EXCEPT ![h].running = FALSE] ELSE heap

\* The null check and, without taking the mutex, http_server->Stop(), whose
\* result is returned.
ReleaseServer(t) ==
    /\ th[t].pc = "ReleaseServer"
    /\ LET f == th[t]
       IN IF f.handle = nullptr
          THEN /\ th' = [th EXCEPT ![t] = [f EXCEPT !.pc = "idle", !.ok = FALSE]]
               /\ UNCHANGED heap
          ELSE \E result \in BOOLEAN :
                  /\ heap' = Stopped(f.handle, result)
                  /\ th' = [th EXCEPT ![t] = [f EXCEPT
                               !.pc = "idle", !.ok = result,
                               !.stopped = Append(f.stopped, f.handle)]]
    /\ UNCHANGED <<http2_config, budget, http_servers, http_servers_mutex, prev,
                   http_server_list, calls, start_count, start_on_entry>>

(***************************************************************************)
(* CreateServers<T>, behind CreateHttpServers and CreateHttpsServers       *)
(***************************************************************************)
\* Where the inner loop continues: its next address, or the outer loop once
\* address_list is exhausted.
LoopPc(address_list) == IF address_list = <<>> THEN "cs_host" ELSE "cs_addr"

\* Mutant of ReleasedOnCreateFailure: the failure branch releases nothing.
ReleasesNothing(server_list) == <<>>

\* What a failed creation hands to ReleaseServers before it returns.
ReleasedOnCreateFailure(server_list) == server_list

\* Mutant of Inserted: the servers are inserted at begin(), not at end().
InsertedAtBegin(list, server_list) == server_list \o list

\* http_server_list->insert(http_server_list->end(), server_list.begin(),
\* server_list.end())
Inserted(list, server_list) == list \o server_list

\* Head of the outer loop: the next server_ip is resolved, and a failed
\* resolution is caught and returns false at once; after the last one, the
\* accumulated servers are appended to the caller's vector.
CreateServersHost(t) ==
    /\ th[t].pc = "cs_host"
    /\ LET f == th[t]
       IN IF f.ip_list = <<>>
          THEN /\ http_server_list' = [http_server_list EXCEPT
                                          ![t] = Inserted(@, f.server_list)]
               /\ th' = [th EXCEPT ![t] = [f EXCEPT !.pc = "idle", !.ok = TRUE]]
          ELSE /\ \/ th' = [th EXCEPT ![t] = [f EXCEPT
                               !.pc = LoopPc(ResolveTable(Head(f.ip_list))),
                               !.address_list = ResolveTable(Head(f.ip_list)),
                               !.ip_list = Tail(f.ip_list)]]
                  \/ th' = [th EXCEPT ![t] = [f EXCEPT
                               !.pc = "idle", !.ok = FALSE,
                               !.fail = "resolve"]]
               /\ UNCHANGED http_server_list
    /\ UNCHANGED <<http2_config, budget, http_servers, http_servers_mutex, heap, prev,
                   calls, start_count, start_on_entry>>

\* Body of the inner loop: creation_function(address) for the next address.
CreateServersAddress(t) ==
    /\ th[t].pc = "cs_addr"
    /\ LET f == th[t]
       IN th' = [th EXCEPT ![t] = [f EXCEPT
                    !.pc = IF f.op = "CreateHttpServers"
                           THEN "CreateHttpServer" ELSE "CreateHttpsServer",
                    !.address = Head(f.address_list),
                    !.attempted = Append(@, Head(f.address_list)),
                    !.address_list = Tail(f.address_list)]]
    /\ UNCHANGED <<http2_config, budget, http_servers, http_servers_mutex, heap, prev,
                   http_server_list, calls, start_count, start_on_entry>>

\* Mutant of Notified: creation_callback is never invoked.
NotifiedNever(callbacks, creation_callback, address, server) == callbacks

\* The invocations of creation_callback so far, after a creation succeeded
\* (lines 223-226).
Notified(callbacks, creation_callback, address, server) ==
    IF creation_callback THEN Append(callbacks, <<address, server>>)
    ELSE callbacks

\* The result of creation_function: callback and push_back, or the rollback.
CreateServersCheck(t) ==
    /\ th[t].pc = "cs_check"
    /\ LET f == th[t]
       IN IF f.server # nullptr
          THEN th' = [th EXCEPT ![t] = [f EXCEPT
                         !.pc = LoopPc(f.address_list),
                         !.callbacks = Notified(@, f.callback, f.address,
                                                f.server),
                         !.server_list = Append(@, f.server)]]
          ELSE th' = [th EXCEPT ![t] = [f EXCEPT
                         !.pc = "cs_release", !.fail = "create",
                         !.rel_list = ReleasedOnCreateFailure(f.server_list)]]
    /\ UNCHANGED <<http2_config, budget, http_servers, http_servers_mutex, heap, prev,
                   http_server_list, calls, start_count, start_on_entry>>

\* ReleaseServers(server_list): ReleaseServer on each element in turn, then
\* CreateServers returns false.
ReleaseServers(t) ==
    /\ th[t].pc = "cs_release"
    /\ LET f == th[t]
       IN IF f.rel_list = <<>>
          THEN /\ th' = [th EXCEPT ![t] = [f EXCEPT !.pc = "idle", !.ok = FALSE]]
               /\ UNCHANGED heap
          ELSE LET h == Head(f.rel_list)
               IN IF h = nullptr
                  THEN /\ th' = [th EXCEPT ![t] = [f EXCEPT !.rel_list = Tail(@)]]
                       /\ UNCHANGED heap
                  ELSE \E result \in BOOLEAN :
                          /\ heap' = Stopped(h, result)
                          /\ th' = [th EXCEPT ![t] = [f EXCEPT
                                       !.rel_list = Tail(@),
                                       !.stopped = Append(@, h)]]
    /\ UNCHANGED <<http2_config, budget, http_servers, http_servers_mutex, prev,
                   http_server_list, calls, start_count, start_on_entry>>

(***************************************************************************)
(* The registry under concurrent callers: creation, reuse and release.     *)
(***************************************************************************)
Init == InitWith(MaxCalls)

Next ==
    \E t \in Threads :
        \/ InvokeCreateHttpServer(t)
        \/ InvokeCreateHttpsServer(t)
        \/ InvokeReleaseServer(t)
        \/ CreateHttpServer(t)
        \/ HttpServerStart(t)
        \/ CreateHttpsServer(t)
        \/ HttpsServerStart(t)
        \/ ReleaseServer(t)

Spec == Init /\ [][Next]_vars

(***************************************************************************)
(* Every function of the manager, from any filled registry.                *)
(***************************************************************************)
InitAll == InitPopulated(MaxCallsAll)

NextAll ==
    \E t \in Threads :
        \/ InvokeCreateHttpServer(t)
        \/ InvokeCreateHttpsServer(t)
        \/ InvokeCreateHttpsServerCert(t)
        \/ InvokeCertificate(t)
        \/ InvokeGetHttpsServer(t)
        \/ InvokeReleaseServer(t)
        \/ InvokeCreateHttpServersWithFunction(t)
        \/ CreateHttpServer(t)
        \/ HttpServerStart(t)
        \/ CreateHttpsServer(t)
        \/ HttpsServerStart(t)
        \/ CertAttach(t)
        \/ GetHttpsServer(t)
        \/ CertificateOp(t)
        \/ ReleaseServer(t)
        \/ CreateServersHost(t)
        \/ CreateServersAddress(t)
        \/ CreateServersCheck(t)
        \/ ReleaseServers(t)

SpecAll == InitAll /\ [][NextAll]_vars

(***************************************************************************)
(* Batch creation over registries that already hold entries.               *)
(***************************************************************************)
InitBatch == InitPopulated(MaxCallsBatch)

NextBatch ==
    \E t \in Threads :
        \/ InvokeCreateHttpServer(t)
        \/ InvokeCreateHttpsServer(t)
        \/ InvokeCreateHttpServers(t)
        \/ CreateHttpServer(t)
        \/ HttpServerStart(t)
        \/ CreateHttpsServer(t)
        \/ HttpsServerStart(t)
        \/ CreateServersHost(t)
        \/ CreateServersAddress(t)
        \/ CreateServersCheck(t)
        \/ ReleaseServers(t)

SpecBatch == InitBatch /\ [][NextBatch]_vars

(***************************************************************************)
(* Batch creation of HTTPS servers with a certificate, from any filled     *)
(* registry.                                                               *)
(***************************************************************************)
TlsRegistries ==
    {<<"none", "none">>, <<"HttpsServer", "none">>,
     <<"HttpServer", "HttpsServer">>}

InitBatchTls == InitFrom(MaxCallsBatch, TlsRegistries, {{"c1"}})

NextBatchTls ==
    \E t \in Threads :
        \/ InvokeCreateHttpsServers(t)
        \/ CreateHttpsServer(t)
        \/ HttpsServerStart(t)
        \/ CertAttach(t)
        \/ CreateServersHost(t)
        \/ CreateServersAddress(t)
        \/ CreateServersCheck(t)
        \/ ReleaseServers(t)

SpecBatchTls == InitBatchTls /\ [][NextBatchTls]_vars

(***************************************************************************)
(* Certificate management on registries whose HttpsServer holds any set of *)
(* certificates.                                                           *)
(***************************************************************************)
CertRegistries ==
    {<<"HttpsServer", "none">>, <<"HttpServer", "HttpsServer">>}

InitCert == InitFrom(MaxCallsCert, CertRegistries, SUBSET Certificates)

NextCert ==
    \E t \in Threads :
        \/ InvokeCertificate(t)
        \/ InvokeGetHttpsServer(t)
        \/ GetHttpsServer(t)
        \/ CertificateOp(t)

SpecCert == InitCert /\ [][NextCert]_vars

(***************************************************************************)
(* Release followed by further requests, from any filled registry.         *)
(***************************************************************************)
ReleaseRegistries == {<<"HttpServer", "none">>, <<"HttpsServer", "none">>}

InitRelease == InitFrom(MaxCallsRelease, ReleaseRegistries, {{"c1"}})

NextRelease ==
    \E t \in Threads :
        \/ InvokeReleaseServer(t)
        \/ InvokeCreateHttpServer(t)
        \/ InvokeCreateHttpsServer(t)
        \/ InvokeGetHttpsServer(t)
        \/ ReleaseServer(t)
        \/ CreateHttpServer(t)
        \/ HttpServerStart(t)
        \/ CreateHttpsServer(t)
        \/ HttpsServerStart(t)
        \/ GetHttpsServer(t)

SpecRelease == InitRelease /\ [][NextRelease]_vars

(***************************************************************************)
(* Properties.                                                             *)
(***************************************************************************)
Range(seq) == {seq[i] : i \in 1..Len(seq)}

Returned(t, op) == th[t].op = op /\ th[t].pc = "idle"

\* The threads whose only call so far is CreateHttpServer on address a.
FirstCallers(a) ==
    {t \in Threads : /\ th[t].op = "CreateHttpServer"
                     /\ th[t].address = a
                     /\ prev[t] = NoCall}

\* At least two threads have called CreateHttpServer on a, nothing else was
\* ever called (so a had no entry when they began), and all have returned.
ConcurrentCreateDone(a) ==
    /\ Cardinality(FirstCallers(a)) >= 2
    /\ calls = Cardinality(FirstCallers(a))
    /\ \A t \in FirstCallers(a) : th[t].pc = "idle"

\* C1 as stated: N threads calling CreateHttpServer on the same address
\* that has no entry cause exactly one Start at that address and all
\* receive the same handle.
C1_OneStartSameHandle ==
    \A a \in Addresses :
        ConcurrentCreateDone(a) =>
            /\ start_count[a] = 1
            /\ \A t, u \in FirstCallers(a) : th[t].server = th[u].server

\* C1 amended: Start is invoked by every caller that finds no entry and
\* never after a Start succeeded (once in all when the first Start
\* succeeds); a caller whose own Start failed receives nullptr and every
\* other caller receives the one registered handle.
C1_OneSuccessfulStartSameHandle ==
    \A a \in Addresses :
        ConcurrentCreateDone(a) =>
            LET failed == {t \in FirstCallers(a) : th[t].server = nullptr}
                got == FirstCallers(a) \ failed
            IN /\ \A t \in failed : th[t].starts = 1 /\ ~th[t].had_entry
               /\ \A t \in got : th[t].server = http_servers[a]
               /\ Cardinality({t \in got : th[t].starts = 1}) <= 1
               /\ \A t \in got : th[t].starts = 0 <=> th[t].had_entry
               /\ start_count[a] =
                      Cardinality(failed) + (IF got = {} THEN 0 ELSE 1)
               /\ Len(heap) = (IF got = {} THEN 0 ELSE 1)

\* Two threads have both returned from CreateHttpServer on one new address
\* with the same handle after a single Start.
C1_Witness ==
    \E a \in Addresses :
        /\ ConcurrentCreateDone(a)
        /\ start_count[a] = 1
        /\ \A t \in FirstCallers(a) :
              th[t].server = http_servers[a] /\ th[t].server # nullptr

\* Thread t has returned from a CreateHttpServer call on an address that had
\* no entry and then from a second CreateHttpServer call on that address.
TwoCreatesDone(t) ==
    /\ prev[t].op = "CreateHttpServer"
    /\ ~prev[t].had_entry
    /\ Returned(t, "CreateHttpServer")
    /\ th[t].address = prev[t].address

\* C7 as stated: two consecutive CreateHttpServer calls on an address with
\* no entry return the same handle, and Start is invoked for the first only.
C7_SecondCallReuses ==
    \A t \in Threads :
        TwoCreatesDone(t) =>
            th[t].server = prev[t].server /\ th[t].starts = 0

\* C7 amended: when the first call's Start succeeded, the second call
\* returns the same handle without invoking Start; when it failed, the
\* second call finds no entry of its own making and invokes Start again.
C7_SecondCallReusesStarted ==
    \A t \in Threads :
        TwoCreatesDone(t) =>
            IF prev[t].server # nullptr
            THEN /\ th[t].server = prev[t].server
                 /\ th[t].starts = 0
                 /\ th[t].had_entry
                 /\ http_servers[th[t].address] = th[t].server
            ELSE th[t].had_entry \/ th[t].starts = 1

\* A thread got a handle from its first call and the same one from its
\* second, after one Start at that address.
C7_Witness ==
    \E t \in Threads :
        /\ TwoCreatesDone(t)
        /\ prev[t].server # nullptr
        /\ th[t].server = prev[t].server
        /\ start_count[th[t].address] = 1

LookupStep(t) ==
    /\ th[t].pc \in {"CreateHttpServer", "CreateHttpsServer"}
    /\ th'[t] # th[t]

\* The address of t's call holds an entry of the other transport type.
TypeConflict(t) ==
    /\ Find(th[t].address) # nullptr
    /\ IF th[t].pc = "CreateHttpServer"
       THEN IsHttpsServer(Find(th[t].address))
       ELSE ~IsHttpsServer(Find(th[t].address))

\* C8: CreateHttpServer on an address holding an HttpsServer, and
\* CreateHttpsServer on an address holding an HttpServer, return nullptr,
\* invoke no Start and leave every server object (type, worker count,
\* HTTP/2 flag, certificates, running state) and the map as they were.
C8_TypeConflictFails ==
    [][\A t \in Threads :
          (LookupStep(t) /\ TypeConflict(t)) =>
              /\ th'[t].server = nullptr
              /\ th'[t].pc \notin {"http_start", "https_start"}
              /\ th[t].op \in {"CreateHttpServer", "CreateHttpsServer"}
                    => th'[t].pc = "idle"
              /\ th'[t].starts = th[t].starts
              /\ start_count' = start_count
              /\ heap' = heap
              /\ http_servers' = http_servers]_vars

\* CreateHttpServer was refused at an address whose HttpsServer, with its
\* certificate, is still the entry.
C8_Witness ==
    \E t \in Threads :
        /\ Returned(t, "CreateHttpServer")
        /\ th[t].had_entry
        /\ th[t].server = nullptr
        /\ th[t].starts = 0
        /\ IsHttpsServer(http_servers[th[t].address])
        /\ heap[http_servers[th[t].address]].certs # {}

\* C9: no step changes the worker count or the HTTP/2 flag of a started
\* server or replaces a map entry, and a CreateHttpServer /
\* CreateHttpsServer that finds an entry of its own type returns that
\* entry without a Start, whatever worker_count and disable_http2_force it
\* was given.
C9_FirstWriterWins ==
    [][/\ \A h \in Handles :
             /\ heap'[h].type = heap[h].type
             /\ heap'[h].address = heap[h].address
             /\ heap'[h].worker_count = heap[h].worker_count
             /\ heap'[h].http2 = heap[h].http2
       /\ \A a \in Addresses :
             http_servers[a] # nullptr => http_servers'[a] = http_servers[a]
       /\ \A t \in Threads :
             (LookupStep(t) /\ Find(th[t].address) # nullptr /\ ~TypeConflict(t)) =>
                 /\ th'[t].server = Find(th[t].address)
                 /\ th'[t].starts = th[t].starts
                 /\ start_count' = start_count]_vars

\* CreateHttpsServer returned an existing HttpsServer although it asked for
\* another worker count and another HTTP/2 setting than the server has.
C9_Witness ==
    \E t \in Threads :
        /\ Returned(t, "CreateHttpsServer")
        /\ th[t].had_entry
        /\ th[t].server # nullptr
        /\ th[t].worker_count # HTTP_SERVER_USE_DEFAULT_COUNT
        /\ th[t].worker_count # heap[th[t].server].worker_count
        /\ Http2Enabled(http2_config, th[t].disable_http2_force)
              # heap[th[t].server].http2

\* C10: a CreateHttpsServer that reuses an existing HttpsServer and passes
\* an explicit worker count other than the server's logs a warning.
C10_WorkerMismatchWarns ==
    \A t \in Threads :
        ( /\ Returned(t, "CreateHttpsServer")
          /\ th[t].had_entry
          /\ th[t].server # nullptr
          /\ th[t].worker_count # HTTP_SERVER_USE_DEFAULT_COUNT
          /\ th[t].worker_count # heap[th[t].server].worker_count )
        => th[t].warned # {}

\* Thread t has returned false from CreateHttpServers.
BatchFailed(t) == Returned(t, "CreateHttpServers") /\ th[t].fail # "none"

\* C3: CreateHttpServers over the hosts h1, h2 on an empty registry, failing
\* at the second host after the first host's addresses were created,
\* returns false and leaves no entry for the first host's addresses.
C3_FirstHostRolledBack ==
    \A t \in Threads :
        ( /\ BatchFailed(t)
          /\ th[t].server_ip_list = <<"h1", "h2">>
          /\ calls = 1
          /\ th[t].created = Handles
          /\ Len(th[t].server_list) = Len(ResolveTable("h1")) )
        => /\ ~th[t].ok
           /\ \A a \in Range(ResolveTable("h1")) : http_servers[a] = nullptr

\* C4: once creation_function has failed for an address, no further address
\* is attempted, ReleaseServer is invoked on the accumulated servers one by
\* one, and when CreateServers returns false every one of them has been
\* given to Stop and the caller's vector is as it was.
C4_CreateFailureReleasesAll ==
    \A t \in Threads :
        th[t].fail = "create" =>
            /\ th[t].pc \in {"cs_release", "idle"}
            /\ th[t].server = nullptr
            /\ Len(th[t].attempted) = Len(th[t].server_list) + 1
            /\ th[t].stopped \o th[t].rel_list = th[t].server_list
            /\ th[t].pc = "idle" =>
                  /\ ~th[t].ok
                  /\ th[t].stopped = th[t].server_list
                  /\ http_server_list[t] = th[t].out_before

\* A batch failed at the creation of its second address and has stopped
\* the server accumulated for its first.
C4_Witness ==
    \E t \in Threads :
        /\ BatchFailed(t)
        /\ th[t].fail = "create"
        /\ th[t].server_list # <<>>
        /\ th[t].stopped = th[t].server_list
        /\ \A h \in Range(th[t].server_list) : ~heap[h].running

\* C5: when the resolution of a host fails after servers were accumulated,
\* every accumulated server has been given to Stop when CreateServers
\* returns false.
C5_ResolveFailureReleasesAll ==
    \A t \in Threads :
        (BatchFailed(t) /\ th[t].fail = "resolve" /\ th[t].server_list # <<>>)
        => th[t].stopped = th[t].server_list

\* C6: when CreateServers fails, a server that was in the map before the
\* batch and was only reused by it has not been given to Stop by the batch
\* and is still the entry of its address.
C6_ReusedEntryUntouched ==
    \A t \in Threads :
        BatchFailed(t) =>
            \A h \in Range(th[t].server_list) \ th[t].created :
                /\ h \notin Range(th[t].stopped)
                /\ http_servers[heap[h].address] = h

\* Thread t takes the lock-protected lookup at the head of AppendCertificate
\* or RemoveCertificate.
CertificateLookupStep(t) ==
    /\ th[t].pc = "GetHttpsServer"
    /\ th[t].op \in {"AppendCertificate", "RemoveCertificate"}
    /\ th'[t] # th[t]

\* The address holds no entry, or an entry that is no HttpsServer.
NoHttpsEntry(address) ==
    Find(address) = nullptr \/ ~IsHttpsServer(Find(address))

\* C11: AppendCertificate and RemoveCertificate on an address with no entry
\* or with an HttpServer entry return false straight from the lookup, without
\* reaching the delegated certificate call and without changing the map or
\* any server object.
C11_NoHttpsEntryFails ==
    [][\A t \in Threads :
          (CertificateLookupStep(t) /\ NoHttpsEntry(th[t].address)) =>
              /\ th'[t].pc = "idle"
              /\ th'[t].ok = FALSE
              /\ th'[t].server = nullptr
              /\ heap' = heap
              /\ http_servers' = http_servers]_vars

\* RemoveCertificate returned false for an address that holds an HttpServer.
C11_Witness ==
    \E t \in Threads :
        /\ Returned(t, "RemoveCertificate")
        /\ th[t].had_entry
        /\ th[t].server = nullptr
        /\ ~th[t].ok
        /\ ~IsHttpsServer(http_servers[th[t].address])

\* Thread t called RemoveCertificate and then AppendCertificate with the
\* same certificate on the same address, both found the HttpsServer there,
\* and no other call was made.
RoundTripDone(t) ==
    /\ prev[t].op = "RemoveCertificate"
    /\ prev[t].server # nullptr
    /\ Returned(t, "AppendCertificate")
    /\ th[t].server = prev[t].server
    /\ th[t].address = prev[t].address
    /\ th[t].certificate = prev[t].certificate
    /\ calls = 2

\* C12 as stated: after RemoveCertificate(address, c) and then
\* AppendCertificate(address, c) the server holds the certificate set it
\* held before the two calls, for every c and every prior set.
C12_RoundTripRestores ==
    \A t \in Threads :
        RoundTripDone(t) =>
            heap[th[t].server].certs = prev[t].certs_before

\* C12 amended: the set is restored when c was in the prior set and both
\* calls returned true; otherwise the set afterwards is the prior set with c
\* removed, with c added, or unchanged, as the two results tell.
C12_RoundTripRestoresInstalled ==
    \A t \in Threads :
        RoundTripDone(t) =>
            LET before == prev[t].certs_before
                c == th[t].certificate
                after == heap[th[t].server].certs
            IN /\ (prev[t].ok /\ th[t].ok /\ c \in before) => after = before
               /\ th[t].ok => after = before \cup {c}
               /\ (prev[t].ok /\ ~th[t].ok) => after = before \ {c}
               /\ (~prev[t].ok /\ ~th[t].ok) => after = before

\* A certificate that was installed next to another one was removed and
\* appended again, both calls returning true.
C12_Witness ==
    \E t \in Threads :
        /\ RoundTripDone(t)
        /\ prev[t].ok /\ th[t].ok
        /\ th[t].certificate \in prev[t].certs_before
        /\ prev[t].certs_before = Certificates
        /\ heap[th[t].server].certs = Certificates

\* Thread t is about to return from the Start of CreateHttpServer or
\* CreateHttpsServer.
StartStep(t) ==
    /\ th[t].pc \in {"http_start", "https_start"}
    /\ th'[t] # th[t]

\* Thread t called CreateHttpServer or CreateHttpsServer on an address with
\* no entry, its Start failed, and it then made the second and last call,
\* CreateHttpServer or CreateHttpsServer on that address, and has returned.
RetryAfterStartFailure(t) ==
    /\ prev[t].op \in {"CreateHttpServer", "CreateHttpsServer"}
    /\ ~prev[t].had_entry
    /\ prev[t].server = nullptr
    /\ th[t].op \in {"CreateHttpServer", "CreateHttpsServer"}
    /\ th[t].pc = "idle"
    /\ th[t].address = prev[t].address
    /\ calls = 2

\* C13: a Start that fails returns nullptr with the map and the started
\* servers exactly as they were, and the next request for that address
\* finds no entry and invokes Start again.
C13_StartFailureLeavesMap ==
    /\ [][\A t \in Threads :
             (StartStep(t) /\ th'[t].server = nullptr) =>
                 /\ http_servers' = http_servers
                 /\ heap' = heap
                 /\ th[t].op \in {"CreateHttpServer", "CreateHttpsServer"}
                       => th'[t].pc = "idle"]_vars
    /\ [](\A t \in Threads :
             RetryAfterStartFailure(t) =>
                 ~th[t].had_entry /\ th[t].starts = 1)

\* A CreateHttpsServer whose Start failed was followed by a
\* CreateHttpsServer on the same address that started the server.
C13_Witness ==
    \E t \in Threads :
        /\ RetryAfterStartFailure(t)
        /\ prev[t].op = "CreateHttpsServer"
        /\ th[t].op = "CreateHttpsServer"
        /\ th[t].server # nullptr
        /\ http_servers[th[t].address] = th[t].server
        /\ start_count[th[t].address] = 2

\* Thread t takes the step of ReleaseServer.
ReleaseStep(t) ==
    /\ th[t].pc = "ReleaseServer"
    /\ th[t].op = "ReleaseServer"
    /\ th'[t] # th[t]

\* The function whose reuse branch accepts the server behind handle h.
MatchingCreate(h) ==
    IF IsHttpsServer(h) THEN "CreateHttpsServer" ELSE "CreateHttpServer"

\* Thread t released a registered server and then called the creation
\* function of the server's type on the server's address, and has returned.
CreateAfterRelease(t) ==
    /\ prev[t].op = "ReleaseServer"
    /\ prev[t].handle # nullptr
    /\ th[t].pc = "idle"
    /\ th[t].op = MatchingCreate(prev[t].handle)
    /\ th[t].address = heap[prev[t].handle].address

\* Thread t released a registered HttpsServer and then looked its address up.
LookupAfterRelease(t) ==
    /\ prev[t].op = "ReleaseServer"
    /\ prev[t].handle # nullptr
    /\ IsHttpsServer(prev[t].handle)
    /\ Returned(t, "GetHttpsServer")
    /\ th[t].address = heap[prev[t].handle].address

\* C14: ReleaseServer returns false for a null handle and otherwise what
\* Stop returned, and never changes the map; a later creation of the
\* matching type on the address returns the released handle without a
\* Start, and GetHttpsServer still returns a released HttpsServer.
C14_ReleaseKeepsEntry ==
    /\ [][\A t \in Threads :
             ReleaseStep(t) =>
                 /\ http_servers' = http_servers
                 /\ th'[t].pc = "idle"
                 /\ IF th[t].handle = nullptr
                    THEN th'[t].ok = FALSE /\ heap' = heap
                    ELSE \E result \in BOOLEAN :
                            /\ th'[t].ok = result
                            /\ heap' = Stopped(th[t].handle, result)]_vars
    /\ [](\A t \in Threads :
             /\ CreateAfterRelease(t) =>
                   /\ th[t].server = prev[t].handle
                   /\ th[t].starts = 0
                   /\ http_servers[th[t].address] = prev[t].handle
                   /\ (prev[t].ok /\ calls = 2) => ~heap[th[t].server].running
             /\ LookupAfterRelease(t) => th[t].server = prev[t].handle)

\* A thread stopped the registered HttpServer through ReleaseServer and was
\* then handed that same, stopped server by CreateHttpServer.
C14_Witness ==
    \E t \in Threads :
        /\ CreateAfterRelease(t)
        /\ prev[t].ok
        /\ th[t].op = "CreateHttpServer"
        /\ th[t].server = prev[t].handle
        /\ ~heap[th[t].server].running
        /\ start_count[th[t].address] = 1

\* Thread t takes the certificate attachment of the certificate overload.
AttachStep(t) ==
    /\ th[t].pc = "cert_attach"
    /\ th'[t] # th[t]

\* C15: when the certificate overload of CreateHttpsServer obtained a server
\* and AppendCertificate reports an error, the call returns nullptr, the
\* attachment step changes neither the map nor any server, and a server this
\* call started is still registered and was given to no Stop by the call.
C15_AttachFailureKeepsServer ==
    /\ [][\A t \in Threads :
             (AttachStep(t) /\ th'[t].error) =>
                 /\ th[t].server # nullptr
                 /\ th'[t].server = nullptr
                 /\ heap' = heap
                 /\ http_servers' = http_servers
                 /\ http_servers[th[t].address] = th[t].server]_vars
    /\ [](\A t \in Threads :
             (Returned(t, "CreateHttpsServerCert") /\ th[t].error) =>
                 /\ th[t].server = nullptr
                 /\ th[t].stopped = <<>>
                 /\ \A h \in th[t].created :
                       http_servers[th[t].address] = h)

\* The certificate overload started a new HttpsServer, the attachment
\* failed, and the server is registered, running and without certificate.
C15_Witness ==
    \E t \in Threads :
        /\ Returned(t, "CreateHttpsServerCert")
        /\ th[t].error
        /\ th[t].server = nullptr
        /\ th[t].starts = 1
        /\ th[t].created = {http_servers[th[t].address]}
        /\ heap[http_servers[th[t].address]].running
        /\ heap[http_servers[th[t].address]].certs = {}

\* C16: the mutex is held during the Stop that ReleaseServer delegates to:
\* when a thread executes that Stop, no other thread is inside the critical
\* section of CreateHttpServer, CreateHttpsServer or GetHttpsServer.
C16_StopUnderMutex ==
    [][\A t \in Threads :
          (ReleaseStep(t) /\ th[t].handle # nullptr) =>
              http_servers_mutex = NoThread]_vars

\* The addresses of a host list in processing order: host by host, each in
\* resolution order.
RECURSIVE ResolvedInOrder(_)
ResolvedInOrder(ips) ==
    IF ips = <<>> THEN <<>>
    ELSE ResolveTable(Head(ips)) \o ResolvedInOrder(Tail(ips))

IsPrefix(s, q) == Len(s) <= Len(q) /\ s = SubSeq(q, 1, Len(s))

\* Thread t is in, or has returned from, a batch creation.
InBatch(t) == th[t].op \in {"CreateHttpServers", "CreateHttpsServers"}

\* C17: the addresses are attempted in the order of server_ip_list and,
\* within a host, in resolution order; the accumulated servers are those of
\* the attempted addresses in that order; on success every address was
\* attempted and the caller's vector is its former contents followed by the
\* accumulated servers, and on failure the vector is as it was.
C17_OrderedAppend ==
    \A t \in Threads :
        InBatch(t) =>
            LET f == th[t]
            IN /\ IsPrefix(f.attempted, ResolvedInOrder(f.server_ip_list))
               /\ Len(f.server_list) <= Len(f.attempted)
               /\ \A i \in 1..Len(f.server_list) :
                     heap[f.server_list[i]].address = f.attempted[i]
               /\ f.pc # "idle" => http_server_list[t] = f.out_before
               /\ (f.pc = "idle" /\ f.ok) =>
                     /\ f.attempted = ResolvedInOrder(f.server_ip_list)
                     /\ Len(f.server_list) = Len(f.attempted)
                     /\ http_server_list[t] = f.out_before \o f.server_list
               /\ (f.pc = "idle" /\ ~f.ok) =>
                     http_server_list[t] = f.out_before

\* A batch over two hosts succeeded and its two servers, in host order,
\* follow what the caller's vector held before.
C17_Witness ==
    \E t \in Threads :
        /\ Returned(t, "CreateHttpServers")
        /\ th[t].ok
        /\ th[t].server_ip_list = <<"h1", "h2">>
        /\ th[t].out_before # <<>>
        /\ Len(th[t].server_list) = 2
        /\ th[t].server_list[1] # th[t].server_list[2]
        /\ http_server_list[t] = th[t].out_before \o th[t].server_list

\* C18: when CreateHttpsServer reuses an HttpsServer whose HTTP/2 setting
\* differs from the requested one, the warning names the actual direction:
\* HTTP/2 enabled on the server and not requested gives the "HTTP/1.1 on a
\* port that is HTTP/2 enabled" warning, the reverse gives the "HTTP/2 for
\* ports enabled as HTTP/1.1 only" warning; equal settings give none.
C18_WarningNamesDirection ==
    \A t \in Threads :
        ( /\ Returned(t, "CreateHttpsServer")
          /\ th[t].had_entry
          /\ th[t].server # nullptr )
        => LET existing == heap[th[t].server].http2
               requested == Http2Enabled(http2_config, th[t].disable_http2_force)
           IN /\ (existing /\ ~requested) => th[t].warned = {W_HTTP11_ON_HTTP2}
              /\ (~existing /\ requested) => th[t].warned = {W_HTTP2_ON_HTTP11_ONLY}
              /\ (existing = requested) => th[t].warned = {}

\* Thread t has returned from a CreateHttpsServers whose certificate
\* attachment failed at the address it attempted last.
AttachFailedBatch(t) ==
    /\ Returned(t, "CreateHttpsServers")
    /\ th[t].error

\* No thread has made a second call: every Stop made so far is recorded in
\* the frame of the call that made it.
FirstCallsOnly == \A u \in Threads : prev[u] = NoCall

\* C19: when CreateHttpsServers fails because the certificate attachment
\* failed at address A, it returns false, the server at A is registered and
\* was not given to Stop by the rollback, every server accumulated before A
\* was, and a server the batch started at A is still running unless another
\* call stopped it.
C19_AttachFailureNotRolledBack ==
    \A t \in Threads :
        AttachFailedBatch(t) =>
            LET f == th[t]
                A == f.attempted[Len(f.attempted)]
                at_A == http_servers[A]
            IN /\ ~f.ok
               /\ f.fail = "create"
               /\ f.address = A
               /\ at_A # nullptr /\ IsHttpsServer(at_A)
               /\ at_A \notin Range(f.server_list)
               /\ at_A \notin Range(f.stopped)
               /\ f.stopped = f.server_list
               /\ Len(f.server_list) = Len(f.attempted) - 1
               /\ http_server_list[t] = f.out_before
               /\ ( /\ at_A \in f.created
                    /\ FirstCallsOnly
                    /\ \A u \in Threads : at_A \notin Range(th[u].stopped) )
                  => heap[at_A].running

\* The batch reused the HttpsServer of the first address, started a server
\* at the second, failed to attach the certificate there and stopped the
\* first: the second is registered and running, the first is stopped.
C19_Witness ==
    \E t \in Threads :
        /\ AttachFailedBatch(t)
        /\ Len(th[t].attempted) = 2
        /\ Len(th[t].server_list) = 1
        /\ th[t].created = {http_servers[th[t].address]}
        /\ heap[http_servers[th[t].address]].running
        /\ th[t].stopped = th[t].server_list
        /\ ~heap[th[t].server_list[1]].running

\* C20: creation_callback, when given, has been invoked exactly once for
\* each address whose creation succeeded, with that address and server, in
\* processing order, and before the next address is attempted; nothing
\* undoes these invocations when the batch fails later, so the servers they
\* were made for can be stopped ones when CreateServers returns false.
C20_CallbackPerCreatedServer ==
    \A t \in Threads :
        InBatch(t) =>
            LET f == th[t]
            IN /\ ~f.callback => f.callbacks = <<>>
               /\ f.callback =>
                     /\ Len(f.callbacks) = Len(f.server_list)
                     /\ \A i \in 1..Len(f.callbacks) :
                           f.callbacks[i] = <<f.attempted[i], f.server_list[i]>>
                     /\ Len(f.attempted) <= Len(f.callbacks) + 1
                     /\ f.pc \in {"cs_host", "cs_addr"} =>
                           Len(f.attempted) = Len(f.callbacks)
                     /\ (f.pc = "idle" /\ f.ok) =>
                           Len(f.callbacks) = Len(f.attempted)

\* A batch invoked the callback for the server of its first address, failed
\* at the second and returned false after stopping that server.
C20_Witness ==
    \E t \in Threads :
        /\ BatchFailed(t)
        /\ th[t].fail = "create"
        /\ th[t].callback
        /\ Len(th[t].callbacks) = 1
        /\ th[t].callbacks[1][2] \in Range(th[t].stopped)
        /\ ~heap[th[t].callbacks[1][2]].running

====
